---- MODULE Spec2Model ----
(***************************************************************************)
(* Mood Diary Compass: one Streamlit session (app.py) and the Gemini       *)
(* request orchestrator (gemini_logic.py).                                 *)
(*                                                                         *)
(* Strings the code inspects character by character (the user's text, the  *)
(* system instruction) are sequences of tokens; a separator character      *)
(* (" ", ",", ".") is always a token of its own.  Python dicts are records *)
(* and a missing key is a field outside the record's DOMAIN.               *)
(***************************************************************************)
EXTENDS Integers, Sequences, FiniteSets, TLC

VARIABLES
    history,      \* st.session_state.history
    report_data,  \* st.session_state.report_data
    now,          \* the wall clock read by pd.Timestamp.now()
    pc,           \* the session's script thread: "idle" or "calling"
    frame,        \* the locals of generate_report while it is blocked in the call
    outstanding,  \* the generate_content requests sent and not yet answered
    last,         \* what the most recent completed run of generate_report did
    log,          \* the completed runs of generate_report, in order
    fault         \* an exception left generate_report unhandled

vars == <<history, report_data, now, pc, frame, outstanding, last, log, fault>>

\* ------------------------------------------------------------------ bounds

MaxTriggers == 2   \* clicks of the generate button in one session
MaxItems == 1      \* items in a recommendation list the provider returns

\* --------------------------------------------------------- Python values

None == [none |-> TRUE]

\* ---------------------------------------------------------------- schema

Mood ==
    {"Joyful", "Happy", "Calm", "Neutral", "Anxious", "Stressed", "Sad", "Angry",
     "Frustrated"}

RecommendationFields == {"title", "reason"}

Recommendation(item) == DOMAIN item = RecommendationFields

RequiredFields == {"overall_mood", "mood_summary", "health_tip_1", "health_tip_2"}

ListFields == {"movie_recommendations", "book_recommendations"}

UserAnalysis_NoEnum(obj) ==
    /\ RequiredFields \subseteq DOMAIN obj
    /\ DOMAIN obj \subseteq RequiredFields \cup ListFields
    /\ \A f \in ListFields \cap DOMAIN obj :
          \A i \in 1..Len(obj[f]) : Recommendation(obj[f][i])

\* pydantic's validation of a JSON object against UserAnalysis
UserAnalysis(obj) ==
    /\ RequiredFields \subseteq DOMAIN obj
    /\ DOMAIN obj \subseteq RequiredFields \cup ListFields
    /\ obj.overall_mood \in Mood
    /\ \A f \in ListFields \cap DOMAIN obj :
          \A i \in 1..Len(obj[f]) : Recommendation(obj[f][i])

\* a validated UserAnalysis as a dict: the list fields default to []
model_dump(obj) ==
    [overall_mood |-> obj.overall_mood,
     mood_summary |-> obj.mood_summary,
     health_tip_1 |-> obj.health_tip_1,
     health_tip_2 |-> obj.health_tip_2,
     movie_recommendations |->
         IF "movie_recommendations" \in DOMAIN obj THEN obj.movie_recommendations ELSE <<>>,
     book_recommendations |->
         IF "book_recommendations" \in DOMAIN obj THEN obj.book_recommendations ELSE <<>>]

\* ------------------------------------------------- instruction composition

Separators == {",", " "}

RECURSIVE rstrip(_, _)
rstrip(s, chars) ==
    IF s # <<>> /\ s[Len(s)] \in chars THEN rstrip(SubSeq(s, 1, Len(s) - 1), chars) ELSE s

MovieClause(n) == <<"and suggest exactly", " ", ToString(n), " ", "relevant movies", ",">>

BookClause(n) == <<"and suggest exactly", " ", ToString(n), " ", "relevant books", ",">>

recommendation_instructions(num_movies, num_books) ==
    rstrip((IF num_movies > 0 THEN MovieClause(num_movies) ELSE <<>>)
               \o (IF num_books > 0 THEN BookClause(num_books) ELSE <<>>),
           Separators)

InstructionHead ==
    <<"You are an empathetic wellness assistant. Your task is to analyze the user's text, determine their mood, provide two helpful health and wellness tips tailored to that mood">>

InstructionTail ==
    <<"You must return the entire response in a single JSON object that strictly adheres to the provided schema. If a recommendation type was not requested (count is 0), return an empty list for that field.">>

system_instruction(num_movies, num_books) ==
    InstructionHead \o <<" ">> \o recommendation_instructions(num_movies, num_books)
        \o <<".", " ">> \o InstructionTail

prompt(user_text) ==
    <<"Analyze my current situation and provide advice based on this: '">> \o user_text
        \o <<"'">>

\* ------------------------------------------------------------ the provider

Recs(n) == [i \in 1..n |-> [title |-> "title", reason |-> "reason"]]

JsonObject(mood, movies, books) ==
    [overall_mood |-> mood, mood_summary |-> "summary", health_tip_1 |-> "tip 1",
     health_tip_2 |-> "tip 2", movie_recommendations |-> Recs(movies),
     book_recommendations |-> Recs(books)]

\* The JSON objects the provider may answer with.  The code copies the mood and
\* counts the lists independently of each other, so the mood varies over empty
\* lists and the lists vary under one mood.
JsonObjects ==
    {JsonObject(m, 0, 0) : m \in Mood \cup {"Ecstatic"}}
        \cup {JsonObject("Calm", a, b) : a, b \in 0..MaxItems}
        \cup {[overall_mood |-> "Happy", mood_summary |-> "summary", health_tip_1 |-> "tip 1"],
              [overall_mood |-> "Happy", mood_summary |-> "summary", health_tip_1 |-> "tip 1",
               health_tip_2 |-> "tip 2"],
              [overall_mood |-> "Sad", mood_summary |-> "summary", health_tip_1 |-> "tip 1",
               health_tip_2 |-> "tip 2", movie_recommendations |-> <<[title |-> "title"]>>]}

\* What generate_content can do: raise (transport failure, provider rejection),
\* or answer with text that is not JSON, or with a JSON object.
Behaviours ==
    {[kind |-> "exception"], [kind |-> "text"]}
        \cup {[kind |-> "json", obj |-> o] : o \in JsonObjects}

\* response.parsed: the validated object, or None when the text does not
\* validate against response_schema
parsed(b) == IF b.kind = "json" /\ UserAnalysis(b.obj) THEN b.obj ELSE None

\* ---------------------------------------------------------- analyze_user_input

ClientErrorMsg == "API Client Error. Ensure GEMINI_API_KEY is set."

CallFailedMsg == "Gemini API Call Failed."

Request(id, user_text, num_movies, num_books) ==
    [id |-> id, model |-> "gemini-2.5-flash", contents |-> prompt(user_text),
     system_instruction |-> system_instruction(num_movies, num_books),
     response_schema |-> "UserAnalysis"]

CallsIssued_IgnoreClientError(client_ok, request) == {request}

\* the requests analyze_user_input sends: none when the client's constructor
\* raised, else the one generate_content
CallsIssued(client_ok, request) == IF client_ok THEN {request} ELSE {}

\* the body of the second try block: generate_content, then
\* response.parsed.model_dump()
TryGenerate(b) ==
    IF b.kind = "exception" THEN [raised |-> "APIError"]
    ELSE IF parsed(b) = None THEN [raised |-> "AttributeError"]
    ELSE [value |-> [success |-> TRUE, data |-> model_dump(parsed(b))]]

Caught_OnlyApiError(exc) == exc = "APIError"

\* except Exception
Caught(exc) == TRUE

\* what analyze_user_input returns once generate_content has acted
AnalyzeReturn(b) ==
    LET r == TryGenerate(b)
    IN  IF "raised" \in DOMAIN r
        THEN IF Caught(r.raised) THEN [error |-> CallFailedMsg] ELSE r
        ELSE r.value

\* ------------------------------------------------------------- the widgets

SliderMin == 1

SliderMax == 5

\* st.session_state.user_text: empty, whitespace only, or a description
Texts == {<<>>, <<" ">>, <<"a">>}

\* num_movies_slider / num_books_slider: the slider's value while the toggle
\* is on, 0 while it is off
SliderValues(toggle) == IF toggle THEN SliderMin..SliderMax ELSE {0}

\* movie_toggle * num_movies_slider
Requested(toggle, slider) == (IF toggle THEN 1 ELSE 0) * slider

\* st.secrets with and without the key
SecretStores == {[OTHER_KEY |-> "x"], [GEMINI_API_KEY |-> "key"]}

\* ------------------------------------------------------------ generate_report

ValidationMsg == "Please describe your current feelings or situation before generating a report."

KeyErrorMsg == "API Key Error: GEMINI_API_KEY not found in Streamlit Secrets."

\* not user_text
Rejected(user_text) == user_text = <<>>

\* result.get("error") is truthy
HasError(result) == "error" \in DOMAIN result /\ result.error # ""

ReportAfter_Stale(old, result) == IF HasError(result) THEN old ELSE result.data

\* st.session_state.report_data after the outcome is consumed
ReportAfter(old, result) == IF HasError(result) THEN None ELSE result.data

HistoryEntry_Swapped(data, t) ==
    [timestamp |-> t, mood |-> data.overall_mood, summary |-> data.mood_summary,
     movies |-> Len(data.book_recommendations), books |-> Len(data.movie_recommendations)]

\* the dict appended to the history
HistoryEntry(data, t) ==
    [timestamp |-> t, mood |-> data.overall_mood, summary |-> data.mood_summary,
     movies |-> Len(data.movie_recommendations), books |-> Len(data.book_recommendations)]

HistoryAfter_Overwrite(hist, result, t) ==
    IF HasError(result) THEN hist ELSE <<HistoryEntry(result.data, t)>>

\* st.session_state.history after the outcome is consumed
HistoryAfter(hist, result, t) ==
    IF HasError(result) THEN hist ELSE Append(hist, HistoryEntry(result.data, t))

\* the outcome a returned dict stands for
OutcomeOf(result) ==
    IF ~HasError(result) THEN "Success"
    ELSE IF result.error = ClientErrorMsg THEN "CredentialsError"
    ELSE "ProviderError"

NoFrame == [user_text |-> <<>>, num_movies |-> 0, num_books |-> 0, submitted |-> 0, calls |-> 0]

NoRun ==
    [user_text |-> <<>>, lookups |-> 0, client |-> FALSE, calls |-> 0, shown |-> "",
     behaviour |-> None, result |-> None, history_before |-> 0]

ScriptThreadFree_Reentrant == TRUE

\* generate_report runs on the session's one script thread, which it holds
\* until analyze_user_input returns
ScriptThreadFree == pc = "idle"

\* the early returns: the message shown, the report cleared
Refuse(user_text, lookups, msg, outcome) ==
    /\ report_data' = None
    /\ last' = [NoRun EXCEPT !.user_text = user_text, !.lookups = lookups, !.shown = msg,
                              !.history_before = Len(history)]
    /\ log' = Append(log, [submitted |-> now, completed |-> now, outcome |-> outcome])
    /\ UNCHANGED <<history, pc, frame, outstanding, fault>>

\* lines 53-68: the returned dict consumed
Consume(user_text, client, calls, b, result, submitted) ==
    IF "raised" \in DOMAIN result
    THEN /\ fault' = TRUE
         /\ last' = [NoRun EXCEPT !.user_text = user_text, !.lookups = 1, !.client = client,
                                   !.calls = calls, !.behaviour = b, !.result = result,
                                   !.history_before = Len(history)]
         /\ log' = Append(log, [submitted |-> submitted, completed |-> now, outcome |-> "Fault"])
         /\ UNCHANGED <<report_data, history>>
    ELSE /\ report_data' = ReportAfter(report_data, result)
         /\ history' = HistoryAfter(history, result, now)
         /\ last' = [NoRun EXCEPT !.user_text = user_text, !.lookups = 1, !.client = client,
                                   !.calls = calls, !.behaviour = b, !.result = result,
                                   !.shown = IF HasError(result) THEN result.error ELSE "",
                                   !.history_before = Len(history)]
         /\ log' = Append(log, [submitted |-> submitted, completed |-> now,
                                outcome |-> OutcomeOf(result)])
         /\ UNCHANGED fault

\* The button is clicked: generate_report runs up to its return, or up to the
\* call of generate_content.
Click(user_text, secrets, client_ok, movie_toggle, num_movies_slider, book_toggle, num_books_slider) ==
    /\ ScriptThreadFree
    /\ Len(log) + Cardinality(outstanding) < MaxTriggers
    /\ now' = now + 1
    /\ IF Rejected(user_text)
       THEN Refuse(user_text, 0, ValidationMsg, "ValidationError")
       ELSE IF "GEMINI_API_KEY" \notin DOMAIN secrets
       THEN Refuse(user_text, 1, KeyErrorMsg, "CredentialsError")
       ELSE LET num_movies == Requested(movie_toggle, num_movies_slider)
                num_books == Requested(book_toggle, num_books_slider)
                issued == CallsIssued(client_ok, Request(now, user_text, num_movies, num_books))
            IN  /\ outstanding' = outstanding \cup issued
                /\ IF client_ok
                   THEN /\ pc' = "calling"
                        /\ frame' = [user_text |-> user_text, num_movies |-> num_movies,
                                     num_books |-> num_books, submitted |-> now,
                                     calls |-> Cardinality(issued)]
                        /\ UNCHANGED <<history, report_data, last, log, fault>>
                   ELSE /\ Consume(user_text, FALSE, Cardinality(issued), None,
                                   [error |-> ClientErrorMsg], now)
                        /\ UNCHANGED <<pc, frame>>

\* generate_content returns or raises, and generate_report runs to its end.
Return(request, b) ==
    /\ pc = "calling"
    /\ request \in outstanding
    /\ request.id = frame.submitted
    /\ outstanding' = outstanding \ {request}
    /\ pc' = "idle"
    /\ frame' = NoFrame
    /\ now' = now + 1
    /\ Consume(frame.user_text, TRUE, frame.calls, b, AnalyzeReturn(b), frame.submitted)

Init ==
    /\ history = <<>>
    /\ report_data = None
    /\ now = 0
    /\ pc = "idle"
    /\ frame = NoFrame
    /\ outstanding = {}
    /\ last = NoRun
    /\ log = <<>>
    /\ fault = FALSE

Next ==
    \/ \E user_text \in Texts, secrets \in SecretStores, client_ok \in BOOLEAN,
          movie_toggle \in BOOLEAN, book_toggle \in BOOLEAN :
          \E num_movies_slider \in SliderValues(movie_toggle),
             num_books_slider \in SliderValues(book_toggle) :
             Click(user_text, secrets, client_ok, movie_toggle, num_movies_slider,
                   book_toggle, num_books_slider)
    \/ \E request \in outstanding, b \in Behaviours : Return(request, b)

Spec == Init /\ [][Next]_vars

\* -------------------------------------------------------------- the views

\* line 183: the report area is rendered
ReportShown == report_data # None

\* display_history's mood_score_map
mood_score_map ==
    ("Joyful" :> 5) @@ ("Happy" :> 4) @@ ("Calm" :> 3) @@ ("Neutral" :> 3)
        @@ ("Anxious" :> 2) @@ ("Stressed" :> 2) @@ ("Sad" :> 1) @@ ("Angry" :> 1)
        @@ ("Frustrated" :> 1)

\* df_history['mood'].map(mood_score_map): a score, or nothing (NaN) for a
\* mood the map does not hold
Scores(hist) ==
    [i \in 1..Len(hist) |->
        IF hist[i].mood \in DOMAIN mood_score_map THEN <<mood_score_map[hist[i].mood]>>
        ELSE <<>>]

\* ------------------------------------------------------------------ claims

LastOutcome == log[Len(log)].outcome

Successes == SelectSeq(log, LAMBDA e : e.outcome = "Success")

C1_OnePerSuccess ==
    /\ Len(history) = Len(Successes)
    /\ \A i \in 1..Len(history) : history[i].timestamp = Successes[i].completed
    /\ \A i, j \in 1..Len(history) :
          i < j => /\ Successes[i].submitted < Successes[j].submitted
                   /\ history[i].timestamp < history[j].timestamp

C1_AppendOnly ==
    /\ Len(history') \in {Len(history), Len(history) + 1}
    /\ SubSeq(history', 1, Len(history)) = history

\* C1: the history holds exactly one entry per run of generate_report that
\* ended in Success and none for a run that ended in an error, in the order the
\* runs were submitted; a step only ever appends to it.
C1_HistoryOnePerSuccessInOrder == [](C1_OnePerSuccess) /\ [][C1_AppendOnly]_vars

C1_Witness ==
    /\ Len(log) = 2
    /\ log[1].outcome = "Success"
    /\ log[2].outcome = "CredentialsError"
    /\ Len(history) = 1

\* C2: once a run of generate_report has completed, the report slot is set
\* exactly when the most recent run ended in Success, and it then holds that
\* run's AnalysisResult; every error outcome leaves it cleared, so the report
\* area never shows an earlier run's report.
C2_ReportIffLastRunSucceeded ==
    /\ log = <<>> => ~ReportShown
    /\ log # <<>> =>
          /\ ReportShown <=> LastOutcome = "Success"
          /\ LastOutcome = "Success" =>
                /\ report_data = last.result.data
                /\ report_data = model_dump(last.behaviour.obj)

C2_Witness ==
    /\ Len(log) = 2
    /\ log[1].outcome = "Success"
    /\ log[2].outcome = "ProviderError"
    /\ ~ReportShown

Whitespace == {" "}

Blank(text) == \A i \in 1..Len(text) : text[i] \in Whitespace

\* C3: a run whose user_text is empty or whitespace only is rejected with the
\* validation error before analyze is invoked: no secrets lookup, no request
\* to the provider, the history unchanged, the report cleared.
C3_BlankTextRejected ==
    /\ pc = "calling" => ~Blank(frame.user_text)
    /\ (log # <<>> /\ Blank(last.user_text)) =>
          /\ LastOutcome = "ValidationError"
          /\ last.shown = ValidationMsg
          /\ last.lookups = 0
          /\ last.calls = 0
          /\ last.result = None
          /\ Len(history) = last.history_before
          /\ ~ReportShown

\* C4: the requests one run sends are fixed by its path: none when the text is
\* refused or the credentials are unavailable (the key is missing, or the
\* client cannot be built), exactly one once analyze has its client, whether
\* that request succeeds or fails.
C4_CallsFixedByPath ==
    /\ Cardinality(outstanding) = (IF pc = "calling" THEN frame.calls ELSE 0)
    /\ pc = "calling" => frame.calls = 1
    /\ log # <<>> =>
          /\ LastOutcome \in {"ValidationError", "CredentialsError"} => last.calls = 0
          /\ LastOutcome \in {"ProviderError", "Success"} => last.calls = 1
          /\ last.calls = (IF last.client THEN 1 ELSE 0)

C4_Witness ==
    /\ Len(log) = 2
    /\ log[1].outcome = "ProviderError"
    /\ last.behaviour = None
    /\ last.result = [error |-> ClientErrorMsg]
    /\ last.calls = 0

FullyPopulated(data) ==
    /\ DOMAIN data = RequiredFields \cup ListFields
    /\ data.overall_mood \in Mood
    /\ \A f \in ListFields : \A i \in 1..Len(data[f]) : DOMAIN data[f][i] = RecommendationFields

WellFormedOutcome(result) ==
    \/ DOMAIN result = {"error"} /\ result.error # ""
    \/ /\ DOMAIN result = {"success", "data"}
       /\ result.success
       /\ FullyPopulated(result.data)

\* C5: analyze returns exactly one outcome whatever the provider does: an
\* error with a message, or Success with a fully populated AnalysisResult; an
\* answer that does not validate against the schema yields an error; no
\* exception leaves generate_report.
C5_AnalyzeAlwaysReturnsAnOutcome ==
    /\ ~fault
    /\ last.result # None => WellFormedOutcome(last.result)
    /\ last.behaviour # None =>
          /\ last.result # None
          /\ (last.behaviour.kind # "json" \/ ~UserAnalysis(last.behaviour.obj))
                => HasError(last.result)
          /\ last.shown = (IF HasError(last.result) THEN last.result.error ELSE "")

C5_Witness ==
    /\ last.behaviour # None
    /\ last.behaviour.kind = "json"
    /\ ~UserAnalysis(last.behaviour.obj)
    /\ last.result = [error |-> CallFailedMsg]
    /\ ~fault

\* C6: on every Success the movie list has exactly num_movies items and the
\* book list exactly num_books items.
C6_ListLengthsAsRequested ==
    [][(pc = "calling" /\ pc' = "idle" /\ "data" \in DOMAIN last'.result) =>
           /\ Len(last'.result.data.movie_recommendations) = frame.num_movies
           /\ Len(last'.result.data.book_recommendations) = frame.num_books]_vars

Occurs(sub, s) ==
    \E i \in 1..(Len(s) - Len(sub) + 1) : SubSeq(s, i, i + Len(sub) - 1) = sub

Pos(sub, s) ==
    CHOOSE i \in 1..(Len(s) - Len(sub) + 1) : SubSeq(s, i, i + Len(sub) - 1) = sub

MovieWords(n) == <<"and suggest exactly", " ", ToString(n), " ", "relevant movies">>

BookWords(n) == <<"and suggest exactly", " ", ToString(n), " ", "relevant books">>

ClausesAsRequested(s, num_movies, num_books) ==
    /\ \A k \in 0..SliderMax : Occurs(MovieWords(k), s) <=> (num_movies > 0 /\ k = num_movies)
    /\ \A k \in 0..SliderMax : Occurs(BookWords(k), s) <=> (num_books > 0 /\ k = num_books)
    /\ (num_movies > 0 /\ num_books > 0) =>
          Pos(MovieWords(num_movies), s) < Pos(BookWords(num_books), s)

NoSeparatorBeforePeriod(s) ==
    LET p == Pos(<<".">>, s) IN p > 1 /\ s[p - 1] \notin {",", " "}

ClausesSeparated(s, num_movies, num_books) ==
    (num_movies > 0 /\ num_books > 0) =>
        Occurs(MovieWords(num_movies) \o <<",", " ">> \o BookWords(num_books), s)

\* C7: the system instruction names the movie clause exactly when
\* num_movies > 0 and the book clause exactly when num_books > 0, movies
\* first, with no comma or other separator directly before the period closing
\* the sentence, and with adjacent clauses separated.
C7_InstructionWellComposed ==
    \A r \in outstanding :
        /\ ClausesAsRequested(r.system_instruction, frame.num_movies, frame.num_books)
        /\ NoSeparatorBeforePeriod(r.system_instruction)
        /\ ClausesSeparated(r.system_instruction, frame.num_movies, frame.num_books)

\* C8: the mood-to-score map is defined on exactly the nine moods with the
\* reference values, and every history entry's mood is one of the nine, so
\* every charted entry has a score between 1 and 5.
C8_EveryEntryHasAScore ==
    /\ DOMAIN mood_score_map = Mood
    /\ mood_score_map["Joyful"] = 5 /\ mood_score_map["Happy"] = 4
    /\ mood_score_map["Calm"] = 3 /\ mood_score_map["Neutral"] = 3
    /\ mood_score_map["Anxious"] = 2 /\ mood_score_map["Stressed"] = 2
    /\ mood_score_map["Sad"] = 1 /\ mood_score_map["Angry"] = 1
    /\ mood_score_map["Frustrated"] = 1
    /\ \A i \in 1..Len(history) :
          /\ history[i].mood \in Mood
          /\ Len(Scores(history)[i]) = 1
          /\ Scores(history)[i][1] \in 1..5

C8_Witness ==
    /\ Len(history) = 2
    /\ history[1].mood = "Joyful"
    /\ history[2].mood = "Frustrated"
    /\ Scores(history) = <<<<5>>, <<1>>>>

Agrees(entry, data) ==
    /\ entry.mood = data.overall_mood
    /\ entry.summary = data.mood_summary
    /\ entry.movies = Len(data.movie_recommendations)
    /\ entry.books = Len(data.book_recommendations)

\* C10: the entry a successful run appends carries that run's mood, summary
\* and list lengths, so whenever a report is present the last history entry
\* agrees with it.
C10_LastEntryAgreesWithReport ==
    /\ (log # <<>> /\ LastOutcome = "Success") =>
          /\ Len(history) = last.history_before + 1
          /\ Agrees(history[Len(history)], last.result.data)
    /\ ReportShown => history # <<>> /\ Agrees(history[Len(history)], report_data)

C10_Witness ==
    /\ ReportShown
    /\ Len(report_data.movie_recommendations) = 1
    /\ Len(report_data.book_recommendations) = 0
    /\ history[Len(history)].movies = 1
    /\ history[Len(history)].books = 0

====
